---- MODULE Spec2Model ----
(* A model of the jariahkusvg gallery page (src/index.tsx): the intrinsic   *)
(* size resolver, the data-URL builder, the per-card settings state and the *)
(* rasterize / download pipeline started by a card's download button.       *)
EXTENDS Integers, Sequences, FiniteSets, TLC

VARIABLES
    cards,        \* mounted Card components: item id -> React state of the card
    exports,      \* handleDownload invocations: export id -> progress of the call
    svgMarkup,    \* argument of a getSvgIntrinsicSize call
    intrinsicOut, \* its return value, once returned
    svgText,      \* argument of a svgToDataUrl call (sequence of characters)
    dataUrl       \* its return value, once returned

vars == <<cards, exports, svgMarkup, intrinsicOut, svgText, dataUrl>>

----------------------------------------------------------------------------
(* JavaScript numbers: exact rationals n/d (d > 0) and NaN.                 *)

NaN == [nan |-> TRUE, n |-> 0, d |-> 1]

Num(k) == [nan |-> FALSE, n |-> k, d |-> 1]

Frac(k, m) == [nan |-> FALSE, n |-> k, d |-> m]

\* a > b on numbers; every comparison with NaN is false
Gt(a, b) == ~a.nan /\ ~b.nan /\ a.n * b.d > b.n * a.d

\* a >= b on numbers; every comparison with NaN is false
Ge(a, b) == ~a.nan /\ ~b.nan /\ a.n * b.d >= b.n * a.d

\* Math.round: the nearest integer, halves towards +Infinity: floor(x + 1/2)
MathRound(x) ==
    IF x.nan THEN NaN ELSE Num((2 * x.n + x.d) \div (2 * x.d))

\* Math.max(a, b): NaN when either argument is NaN
MathMax(a, b) ==
    IF a.nan \/ b.nan THEN NaN ELSE IF Gt(b, a) THEN b ELSE a

\* a / b for a divisor b > 0 (an aspect ratio)
Div(a, b) ==
    IF a.nan \/ b.nan THEN NaN ELSE Frac(a.n * b.d, a.d * b.n)

\* a * b
Mul(a, b) ==
    IF a.nan \/ b.nan THEN NaN ELSE Frac(a.n * b.n, a.d * b.d)

\* v || 0: NaN and 0 are falsy
OrZero(v) == IF v.nan \/ v.n = 0 THEN Num(0) ELSE v

----------------------------------------------------------------------------
(* Markup, as getSvgIntrinsicSize sees it: whether it is well-formed XML    *)
(* and the viewBox / width / height attributes written on its root element. *)
(* An attribute value is a sequence of whitespace-separated tokens; a token *)
(* is a numeric literal (num, NaN when it has no digits) followed by a      *)
(* suffix of letters or '%'.                                                *)

Tok(num, suffix) == [num |-> num, suffix |-> suffix]

NoAttr == [present |-> FALSE, toks |-> <<>>]

Attr(toks) == [present |-> TRUE, toks |-> toks]

NullSize == [null |-> TRUE, width |-> Num(0), height |-> Num(0)]

SizeOf(w, h) == [null |-> FALSE, width |-> w, height |-> h]

\* DOMParser.parseFromString(...).documentElement: the root element of
\* well-formed markup; a parsererror element, which carries none of the
\* attributes, otherwise. parseFromString does not throw.
documentElement(markup) ==
    IF markup.wellFormed
    THEN [viewBox |-> markup.viewBox, width |-> markup.width, height |-> markup.height]
    ELSE [viewBox |-> NoAttr, width |-> NoAttr, height |-> NoAttr]

\* Number(token): the whole token must be a numeric literal
NumberOf(tok) == IF tok.suffix # "" THEN NaN ELSE tok.num

\* s ? parseFloat(s) : NaN, without the suffix strip
parseLenNoStrip(s) ==
    IF ~s.present \/ s.toks = <<>> THEN NaN ELSE NumberOf(s.toks[1])

\* s ? parseFloat(s.replace(/[a-z%]+$/i, "")) : NaN
parseLen(s) ==
    IF ~s.present \/ s.toks = <<>> THEN NaN ELSE s.toks[1].num

getSvgIntrinsicSize(markup) ==
    LET svgEl == documentElement(markup)
        vb    == svgEl.viewBox
        parts == [i \in 1..Len(vb.toks) |-> NumberOf(vb.toks[i])]
        w     == parseLen(svgEl.width)
        h     == parseLen(svgEl.height)
    IN  IF /\ vb.present /\ vb.toks # <<>>
           /\ Len(parts) = 4
           /\ \A i \in 1..4 : ~parts[i].nan
           /\ Gt(parts[3], Num(0)) /\ Gt(parts[4], Num(0))
        THEN SizeOf(parts[3], parts[4])
        ELSE IF Gt(w, Num(0)) /\ Gt(h, Num(0))
             THEN SizeOf(w, h)
             ELSE NullSize

----------------------------------------------------------------------------
(* Strings, for svgToDataUrl: sequences of one-character strings.           *)

\* s.includes(pat) at position i
MatchAt(s, pat, i) ==
    /\ i + Len(pat) - 1 <= Len(s)
    /\ \A k \in 1..Len(pat) : s[i + k - 1] = pat[k]

\* s.includes(pat)
Includes(s, pat) == \E i \in 1..Len(s) : MatchAt(s, pat, i)

RECURSIVE ReplaceFrom(_, _, _, _)
\* s.replace(/pat/g, rep) from position i on: leftmost matches, not overlapping
ReplaceFrom(s, pat, rep, i) ==
    IF i > Len(s) THEN <<>>
    ELSE IF MatchAt(s, pat, i)
         THEN rep \o ReplaceFrom(s, pat, rep, i + Len(pat))
         ELSE <<s[i]>> \o ReplaceFrom(s, pat, rep, i + 1)

\* s.replace(/pat/g, rep) for a pattern of literal characters
ReplaceAll(s, pat, rep) == ReplaceFrom(s, pat, rep, 1)

\* \w of a regular expression
WordChars == {"a", "g", "h", "l", "m", "n", "o", "p", "r", "s", "t", "v", "w", "x",
              "0", "1", "2", "3", "_"}

SvgTag == <<"<", "s", "v", "g">>

XmlnsKey == <<"x", "m", "l", "n", "s", "=">>

SvgTagWithXmlns == <<"<", "s", "v", "g", " ", "x", "m", "l", "n", "s", "=", "\"", "h", "t", "t", "p", ":", "/", "/", "w", "w", "w", ".", "w", "3", ".", "o", "r", "g", "/", "2", "0", "0", "0", "/", "s", "v", "g", "\"">>

DataUrlPrefix == <<"d", "a", "t", "a", ":", "i", "m", "a", "g", "e", "/", "s", "v", "g", "+", "x", "m", "l", ";", "c", "h", "a", "r", "s", "e", "t", "=", "u", "t", "f", "-", "8", ",">>

\* positions where /<svg\b/ matches
SvgTagMatches(svg) ==
    {i \in 1..Len(svg) :
        /\ MatchAt(svg, SvgTag, i)
        /\ (i + 4 > Len(svg) \/ svg[i + 4] \notin WordChars)}

Min(S) == CHOOSE m \in S : \A k \in S : m <= k

\* if (!svg.includes("xmlns=")) svg = svg.replace(/<svg\b/, '<svg xmlns="..."')
withXmlns(svg) ==
    IF Includes(svg, XmlnsKey) \/ SvgTagMatches(svg) = {} THEN svg
    ELSE LET i == Min(SvgTagMatches(svg))
         IN  SubSeq(svg, 1, i - 1) \o SvgTagWithXmlns \o SubSeq(svg, i + 4, Len(svg))

\* characters encodeURIComponent leaves alone, among those modelled
Unreserved == {"a", "g", "h", "l", "m", "n", "o", "p", "r", "s", "t", "v", "w", "x",
               "0", "1", "2", "3", "_", ".", "'"}

\* the two hexadecimal digits of the (single-byte) character's code
HexOf(ch) ==
    CASE ch = "\n" -> <<"0", "A">>
      [] ch = " "  -> <<"2", "0">>
      [] ch = "\"" -> <<"2", "2">>
      [] ch = "#"  -> <<"2", "3">>
      [] ch = "%"  -> <<"2", "5">>
      [] ch = "/"  -> <<"2", "F">>
      [] ch = ":"  -> <<"3", "A">>
      [] ch = "<"  -> <<"3", "C">>
      [] ch = "="  -> <<"3", "D">>
      [] ch = ">"  -> <<"3", "E">>

Escaped == {"\n", " ", "\"", "#", "%", "/", ":", "<", "=", ">"}

RECURSIVE encodeURIComponent(_)
encodeURIComponent(s) ==
    IF s = <<>> THEN <<>>
    ELSE (IF Head(s) \in Unreserved THEN <<Head(s)>> ELSE <<"%">> \o HexOf(Head(s)))
         \o encodeURIComponent(Tail(s))

\* what the last replace of the chain puts in place of %22
QuoteReplacement == <<"'">>

svgToDataUrl(svg0) ==
    LET svg == withXmlns(svg0)
        e0  == encodeURIComponent(svg)
        e1  == ReplaceAll(e0, <<"%", "0", "A">>, <<>>)
        e2  == ReplaceAll(e1, <<"%", "2", "0">>, <<" ">>)
        e3  == ReplaceAll(e2, <<"%", "3", "D">>, <<"=">>)
        e4  == ReplaceAll(e3, <<"%", "3", "A">>, <<":">>)
        e5  == ReplaceAll(e4, <<"%", "2", "F">>, <<"/">>)
        e6  == ReplaceAll(e5, <<"%", "2", "2">>, QuoteReplacement)
    IN  DataUrlPrefix \o e6

----------------------------------------------------------------------------
(* The items a Card is rendered for: the catalog SAMPLE_SVGS, and further   *)
(* items that exercise the intrinsic sizes the resolver can return.         *)

VB(w, h) == Attr(<<Tok(Num(0), ""), Tok(Num(0), ""), Tok(Num(w), ""), Tok(Num(h), "")>>)

SvgOf(vb) == [wellFormed |-> TRUE, viewBox |-> vb, width |-> NoAttr, height |-> NoAttr]

SAMPLE_SVGS ==
    { [id |-> "islamic-ornament", name |-> <<"O", "r", "n", "a", "m", "e", "n", " ", "G", "e", "o", "m", "e", "t", "r", "i", "k">>, svg |-> SvgOf(VB(160, 160))],
      [id |-> "masjid", name |-> <<"M", "a", "s", "j", "i", "d", " ", "S", "i", "l", "u", "e", "t">>, svg |-> SvgOf(VB(240, 160))],
      [id |-> "calligraphy", name |-> <<"K", "a", "l", "i", "g", "r", "a", "f", "i", " ", "S", "e", "d", "e", "r", "h", "a", "n", "a">>, svg |-> SvgOf(VB(200, 120))] }

OtherItems ==
    { [id |-> "banner", name |-> <<"W", "i", "d", "e", " ", " ", "B", "a", "n", "n", "e", "r", "!">>, svg |-> SvgOf(VB(4096, 1))],
      [id |-> "plain", name |-> <<"P", "l", "a", "i", "n">>, svg |-> SvgOf(NoAttr)] }

Items == SAMPLE_SVGS \cup OtherItems

ItemOf(id) == CHOOSE it \in Items : it.id = id

\* Card's defaultWidth = 1024
defaultWidth == 1024

Formats == {"png", "jpeg"}

\* values of the colour input
Colors == {"#ffffff", "#000000"}

\* String.prototype.toLowerCase on the letters modelled
ToLower(ch) ==
    CASE ch = "B" -> "b" [] ch = "G" -> "g" [] ch = "K" -> "k" [] ch = "M" -> "m"
      [] ch = "O" -> "o" [] ch = "P" -> "p" [] ch = "S" -> "s" [] ch = "W" -> "w"
      [] OTHER -> ch

SlugChars == {"a", "b", "c", "d", "e", "f", "g", "h", "i", "j", "k", "l", "m", "n",
              "o", "p", "q", "r", "s", "t", "u", "v", "w", "x", "y", "z",
              "0", "1", "2", "3", "4", "5", "6", "7", "8", "9", "-"}

RECURSIVE SlugFrom(_, _)
\* .toLowerCase().replace(/\s+/g, "-").replace(/[^a-z0-9-]/g, "") from position i
SlugFrom(name, i) ==
    IF i > Len(name) THEN <<>>
    ELSE IF name[i] = " "
         THEN (IF i > 1 /\ name[i - 1] = " " THEN <<>> ELSE <<"-">>) \o SlugFrom(name, i + 1)
         ELSE (IF ToLower(name[i]) \in SlugChars THEN <<ToLower(name[i])>> ELSE <<>>)
              \o SlugFrom(name, i + 1)

Slug(name) == SlugFrom(name, 1)

\* const intrinsic = useMemo(() => getSvgIntrinsicSize(item.svg), [item.svg])
intrinsic(c) == getSvgIntrinsicSize(ItemOf(c).svg)

\* const aspect = intrinsic ? intrinsic.width / intrinsic.height : 1
aspect(c) ==
    IF intrinsic(c).null THEN Num(1) ELSE Div(intrinsic(c).width, intrinsic(c).height)

\* useState<Size>(() => ...): the initial size of a card
initialSize(c) ==
    IF ~intrinsic(c).null
    THEN [width  |-> Num(defaultWidth),
          height |-> MathRound(Div(Num(defaultWidth),
                                   Div(intrinsic(c).width, intrinsic(c).height)))]
    ELSE [width  |-> Num(defaultWidth),
          height |-> MathRound(Div(Num(defaultWidth), aspect(c)))]

\* the state of a Card after its first render; the effect of the first
\* render is still to run
initialCard(c) ==
    [format |-> "png", transparent |-> TRUE, bgColor |-> "#ffffff", lockRatio |-> TRUE,
     size |-> initialSize(c), effectPending |-> TRUE]

----------------------------------------------------------------------------
(* The settings handlers of a Card. React runs the pending effect of a      *)
(* render before it dispatches the next input event, so a handler runs only *)
(* when no effect of its card is pending.                                   *)

SetCard(c, r) == cards' = [cards EXCEPT ![c] = r]

FrameCard == UNCHANGED <<exports, svgMarkup, intrinsicOut, svgText, dataUrl>>

\* <select> onChange: setFormat(e.target.value)
setFormat(c, f) ==
    /\ ~cards[c].effectPending
    /\ f # cards[c].format
    /\ SetCard(c, [cards[c] EXCEPT !.format = f, !.effectPending = TRUE])
    /\ FrameCard

\* transparency checkbox onChange (disabled while format is jpeg)
setTransparent(c, t) ==
    /\ ~cards[c].effectPending
    /\ cards[c].format # "jpeg"
    /\ t # cards[c].transparent
    /\ SetCard(c, [cards[c] EXCEPT !.transparent = t, !.effectPending = TRUE])
    /\ FrameCard

\* colour input onChange (disabled while transparent and png)
setBgColor(c, col) ==
    /\ ~cards[c].effectPending
    /\ ~(cards[c].transparent /\ cards[c].format = "png")
    /\ col # cards[c].bgColor
    /\ SetCard(c, [cards[c] EXCEPT !.bgColor = col])
    /\ FrameCard

\* ratio-lock checkbox onChange
setLockRatio(c, b) ==
    /\ ~cards[c].effectPending
    /\ b # cards[c].lockRatio
    /\ SetCard(c, [cards[c] EXCEPT !.lockRatio = b])
    /\ FrameCard

\* the effect without the forced reset
formatEffectNoReset(c) ==
    /\ cards[c].effectPending
    /\ SetCard(c, [cards[c] EXCEPT !.effectPending = FALSE])
    /\ FrameCard

\* useEffect(() => { if (format === "jpeg" && transparent) setTransparent(false) },
\*           [format, transparent]); the reset changes a dependency, so the
\* effect runs once more after it
formatEffect(c) ==
    /\ cards[c].effectPending
    /\ IF cards[c].format = "jpeg" /\ cards[c].transparent
       THEN SetCard(c, [cards[c] EXCEPT !.transparent = FALSE])
       ELSE SetCard(c, [cards[c] EXCEPT !.effectPending = FALSE])
    /\ FrameCard

\* onWidthChange that couples the height whatever the ratio lock says
onWidthChangeAlwaysLocked(c, v) ==
    LET width == MathMax(Num(1), MathRound(OrZero(v)))
    IN  /\ ~cards[c].effectPending
        /\ SetCard(c, [cards[c] EXCEPT !.size =
               [width |-> width,
                height |-> MathMax(Num(1), MathRound(Div(width, aspect(c))))]])
        /\ FrameCard

onWidthChange(c, v) ==
    LET width == MathMax(Num(1), MathRound(OrZero(v)))
    IN  /\ ~cards[c].effectPending
        /\ IF cards[c].lockRatio
           THEN SetCard(c, [cards[c] EXCEPT !.size =
                    [width |-> width,
                     height |-> MathMax(Num(1), MathRound(Div(width, aspect(c))))]])
           ELSE SetCard(c, [cards[c] EXCEPT !.size.width = width])
        /\ FrameCard

onHeightChange(c, v) ==
    LET height == MathMax(Num(1), MathRound(OrZero(v)))
    IN  /\ ~cards[c].effectPending
        /\ IF cards[c].lockRatio
           THEN SetCard(c, [cards[c] EXCEPT !.size =
                    [width |-> MathMax(Num(1), MathRound(Mul(height, aspect(c)))),
                     height |-> height]])
           ELSE SetCard(c, [cards[c] EXCEPT !.size.height = height])
        /\ FrameCard

----------------------------------------------------------------------------
(* One handleDownload call: the rasterizeSvg call it awaits, then the file  *)
(* name and downloadBlob. Between its two awaits the call runs to           *)
(* completion, so it advances in three steps: the click (up to the image    *)
(* load), the image's onload / onerror (up to toBlob), the toBlob callback  *)
(* (to the end).                                                            *)

NoCanvas == [width |-> Num(0), height |-> Num(0), layers |-> <<>>]

NoBlob == [type |-> "", quality |-> "", pixels |-> <<>>]

NoFilename == [slug |-> <<>>, width |-> Num(0), height |-> Num(0), ext |-> ""]

NoSettings ==
    [size |-> [width |-> Num(0), height |-> Num(0)], format |-> "", transparent |-> FALSE,
     bgColor |-> ""]

\* an export slot whose download button has not been clicked
IdleExport ==
    [phase |-> "Idle", card |-> "", outSize |-> [width |-> Num(0), height |-> Num(0)],
     format |-> "", background |-> [color |-> "", transparent |-> FALSE],
     name |-> <<>>, size |-> [width |-> Num(0), height |-> Num(0)],
     clicked |-> NoSettings, canvas |-> NoCanvas, blob |-> NoBlob,
     filename |-> NoFilename, saved |-> <<>>, urlLive |-> FALSE, alerts |-> <<>>,
     loads |-> 0, hist |-> <<>>]

SetExport(e, r) == exports' = [exports EXCEPT ![e] = r]

FrameExport == UNCHANGED <<cards, svgMarkup, intrinsicOut, svgText, dataUrl>>

\* the call rasterizeSvg(svgMarkup, outSize, format, background), up to the
\* await of the image load, made by a caller that holds name, size, format
StartRaster(c, name, size, outSize, format, background, clicked) ==
    [IdleExport EXCEPT
        !.phase = "Loading", !.card = c, !.outSize = outSize, !.format = format,
        !.background = background, !.name = name, !.size = size, !.clicked = clicked,
        !.loads = 1, !.hist = <<"Loading">>]

\* transparent: format === "png" ? transparent : false
passedTransparent(c) ==
    IF cards[c].format = "png" THEN cards[c].transparent ELSE FALSE

\* the download button's onClick, up to the first await
handleDownload(c, e) ==
    /\ ~cards[c].effectPending
    /\ exports[e].phase = "Idle"
    /\ SetExport(e, StartRaster(c, ItemOf(c).name, cards[c].size, cards[c].size,
                                cards[c].format,
                                [color |-> cards[c].bgColor,
                                 transparent |-> passedTransparent(c)],
                                [size |-> cards[c].size, format |-> cards[c].format,
                                 transparent |-> cards[c].transparent,
                                 bgColor |-> cards[c].bgColor]))
    /\ FrameExport

\* the error text of the alert: err?.message || err
ErrDecode == "[object Event]"

ErrContext == "Canvas context unavailable"

ErrEncode == "toBlob failed"

ErrAppend == "document.body.appendChild failed"

ErrClick == "a.click failed"

\* a catch that swallows the error without an alert
CaughtSilently(r, msg) ==
    [r EXCEPT !.phase = "Failed", !.hist = Append(@, "Failed")]

\* catch (err) { alert(`Gagal mengunduh: ${err?.message || err}`) }
Caught(r, msg) ==
    [r EXCEPT !.phase = "Failed", !.alerts = Append(@, msg), !.hist = Append(@, "Failed")]

\* a canvas dimension without the floor of one pixel
canvasDimNoFloor(x) == MathRound(x)

\* Math.max(1, Math.round(x))
canvasDim(x) == MathMax(Num(1), MathRound(x))

\* a fill test that looks at the transparency flag only
needsFillFlagOnly(format, background) == ~background.transparent

\* format === "jpeg" || !background.transparent
needsFill(format, background) == format = "jpeg" \/ ~background.transparent

\* background.color || "#ffffff"
fillStyle(background) == IF background.color = "" THEN "#ffffff" ELSE background.color

\* i.onerror = reject: the await throws into handleDownload's catch
imgOnerror(e) ==
    /\ exports[e].phase = "Loading"
    /\ SetExport(e, Caught(exports[e], ErrDecode))
    /\ FrameExport

\* i.onload = () => resolve(i): rasterizeSvg resumes and runs up to the await
\* of canvas.toBlob; ctxOk is whether getContext("2d") returned a context
imgOnload(e, ctxOk) ==
    LET r      == exports[e]
        canvas == [width  |-> canvasDim(r.outSize.width),
                   height |-> canvasDim(r.outSize.height),
                   layers |-> <<>>]
        filled == IF needsFill(r.format, r.background)
                  THEN [canvas EXCEPT !.layers = Append(@, fillStyle(r.background))]
                  ELSE canvas
        drawn  == [filled EXCEPT !.layers = Append(@, "img")]
    IN  /\ r.phase = "Loading"
        /\ IF ~ctxOk
           THEN SetExport(e, Caught([r EXCEPT !.canvas = canvas,
                                              !.hist = Append(@, "Drawing")],
                                    ErrContext))
           ELSE SetExport(e, [r EXCEPT !.phase = "Encoding", !.canvas = drawn,
                                       !.hist = @ \o <<"Drawing", "Encoding">>])
        /\ FrameExport

\* the size in the file name, read from the card's current state
filenameSizeLive(e) == cards[exports[e].card].size

\* the size in the file name: the size of the render the click happened in
filenameSize(e) == exports[e].size

\* `${slug}-${size.width}x${size.height}.${format === "jpeg" ? "jpg" : "png"}`
filenameOf(e) ==
    [slug |-> Slug(exports[e].name),
     width |-> filenameSize(e).width, height |-> filenameSize(e).height,
     ext |-> IF exports[e].format = "jpeg" THEN "jpg" ELSE "png"]

DownloadOutcomes == {"ok", "appendChild throws", "click throws"}

\* downloadBlob(blob, filename) inside handleDownload's try: a throw of
\* appendChild or click skips the remaining statements, revokeObjectURL included
downloadBlob(r, filename, outcome) ==
    LET created == [r EXCEPT !.filename = filename, !.urlLive = TRUE]
    IN  CASE outcome = "appendChild throws" -> Caught(created, ErrAppend)
          [] outcome = "click throws" -> Caught(created, ErrClick)
          [] outcome = "ok" ->
                [created EXCEPT !.saved = Append(@, filename), !.urlLive = FALSE,
                                !.phase = "Ready", !.hist = Append(@, "Ready")]

\* the toBlob callback: (b) => b ? resolve(b) : reject(new Error("toBlob failed")),
\* then the rest of handleDownload
toBlobCallback(e, b, outcome) ==
    LET r    == exports[e]
        blob == [type |-> IF r.format = "jpeg" THEN "image/jpeg" ELSE "image/png",
                 quality |-> IF r.format = "jpeg" THEN "0.92" ELSE "undefined",
                 pixels |-> r.canvas.layers]
    IN  /\ r.phase = "Encoding"
        /\ IF ~b
           THEN SetExport(e, Caught(r, ErrEncode))
           ELSE SetExport(e, downloadBlob([r EXCEPT !.blob = blob], filenameOf(e), outcome))
        /\ FrameExport

----------------------------------------------------------------------------
(* Specification of one card: its settings handlers.                        *)

\* what the user types into the width and height inputs: Number(e.target.value)
Inputs == {NaN, Num(0), Frac(-3, 2), Frac(5, 2), Frac(1004, 10), Num(512)}

NoMarkup == SvgOf(NoAttr)

NotReturned == [returned |-> FALSE, value |-> <<>>]

NoSizeReturned == [returned |-> FALSE, value |-> NullSize]

IdlePure ==
    /\ svgMarkup = NoMarkup
    /\ intrinsicOut = NoSizeReturned
    /\ svgText = <<>>
    /\ dataUrl = NotReturned

InitCard ==
    /\ \E it \in Items : cards = [c \in {it.id} |-> initialCard(c)]
    /\ exports = [e \in {} |-> IdleExport]
    /\ IdlePure

NextCard ==
    \/ \E c \in DOMAIN cards, f \in Formats : setFormat(c, f)
    \/ \E c \in DOMAIN cards, t \in BOOLEAN : setTransparent(c, t)
    \/ \E c \in DOMAIN cards, col \in Colors : setBgColor(c, col)
    \/ \E c \in DOMAIN cards, b \in BOOLEAN : setLockRatio(c, b)
    \/ \E c \in DOMAIN cards : formatEffect(c)
    \/ \E c \in DOMAIN cards, v \in Inputs : onWidthChange(c, v)
    \/ \E c \in DOMAIN cards, v \in Inputs : onHeightChange(c, v)

SpecCard == InitCard /\ [][NextCard]_vars

----------------------------------------------------------------------------
(* Specification of one card and one download.                              *)

ExportInputs == {NaN, Num(0)}

Init ==
    /\ \E it \in Items : cards = [c \in {it.id} |-> initialCard(c)]
    /\ exports = [e \in {"e1"} |-> IdleExport]
    /\ IdlePure

Next ==
    \/ \E c \in DOMAIN cards, f \in Formats : setFormat(c, f)
    \/ \E c \in DOMAIN cards, t \in BOOLEAN : setTransparent(c, t)
    \/ \E c \in DOMAIN cards, col \in Colors : setBgColor(c, col)
    \/ \E c \in DOMAIN cards, b \in BOOLEAN : setLockRatio(c, b)
    \/ \E c \in DOMAIN cards : formatEffect(c)
    \/ \E c \in DOMAIN cards, v \in ExportInputs : onWidthChange(c, v)
    \/ \E c \in DOMAIN cards, v \in ExportInputs : onHeightChange(c, v)
    \/ \E c \in DOMAIN cards, e \in DOMAIN exports : handleDownload(c, e)
    \/ \E e \in DOMAIN exports : imgOnerror(e)
    \/ \E e \in DOMAIN exports, ctxOk \in BOOLEAN : imgOnload(e, ctxOk)
    \/ \E e \in DOMAIN exports, b \in BOOLEAN, o \in DownloadOutcomes : toBlobCallback(e, b, o)

Spec == Init /\ [][Next]_vars

----------------------------------------------------------------------------
(* Specification of two cards with downloads in flight at the same time.    *)

ConcCards == {"islamic-ornament", "masjid"}

ConcInputs == {Frac(3, 2)}

InitConc ==
    /\ cards = [c \in ConcCards |-> initialCard(c)]
    /\ exports = [e \in {"e1", "e2"} |-> IdleExport]
    /\ IdlePure

NextConc ==
    \/ \E c \in DOMAIN cards, f \in Formats : setFormat(c, f)
    \/ \E c \in DOMAIN cards : formatEffect(c)
    \/ \E c \in DOMAIN cards, v \in ConcInputs : onWidthChange(c, v)
    \/ \E c \in DOMAIN cards, e \in DOMAIN exports : handleDownload(c, e)
    \/ \E e \in DOMAIN exports : imgOnerror(e)
    \/ \E e \in DOMAIN exports : imgOnload(e, TRUE)
    \/ \E e \in DOMAIN exports, b \in BOOLEAN : toBlobCallback(e, b, "ok")

SpecConc == InitConc /\ [][NextConc]_vars

----------------------------------------------------------------------------
(* Specification of one rasterizeSvg call with arguments of any value.      *)

RasterInputs ==
    {Frac(1004, 10), Frac(996, 10), Num(0), Frac(-5, 2), Frac(-1, 2), Frac(1, 2),
     Frac(5, 2), Num(3)}

RasterColors == {"", "#000000"}

InitRaster ==
    /\ cards = [c \in {} |-> initialCard(c)]
    /\ \E w \in RasterInputs, h \in RasterInputs, f \in Formats,
          col \in RasterColors, t \in BOOLEAN :
          LET outSize == [width |-> w, height |-> h]
          IN  exports = [e \in {"e1"} |->
                  StartRaster("", <<"M", "a", "s", "j", "i", "d", " ", "S", "i", "l", "u", "e", "t">>, outSize, outSize, f,
                              [color |-> col, transparent |-> t],
                              [size |-> outSize, format |-> f, transparent |-> t,
                               bgColor |-> col])]
    /\ IdlePure

NextRaster ==
    \/ \E e \in DOMAIN exports : imgOnerror(e)
    \/ \E e \in DOMAIN exports, ctxOk \in BOOLEAN : imgOnload(e, ctxOk)
    \/ \E e \in DOMAIN exports, b \in BOOLEAN, o \in DownloadOutcomes : toBlobCallback(e, b, o)

SpecRaster == InitRaster /\ [][NextRaster]_vars

----------------------------------------------------------------------------
(* Specification of one getSvgIntrinsicSize call.                           *)

\* the longest viewBox value, in tokens
MaxTokens == 4

ViewBoxTokens == {Tok(Num(0), ""), Tok(Frac(5, 2), ""), Tok(Num(-1), ""), Tok(Num(10), "px")}

ViewBoxes ==
    {NoAttr} \cup {Attr(t) : t \in UNION {[1..n -> ViewBoxTokens] : n \in 0..MaxTokens}}

Lengths ==
    {NoAttr, Attr(<<>>), Attr(<<Tok(Num(100), "")>>), Attr(<<Tok(Num(100), "px")>>),
     Attr(<<Tok(Num(50), "%")>>), Attr(<<Tok(Num(0), "")>>), Attr(<<Tok(Num(-5), "px")>>),
     Attr(<<Tok(NaN, "abc")>>)}

InitSize ==
    /\ cards = [c \in {} |-> initialCard(c)]
    /\ exports = [e \in {} |-> IdleExport]
    /\ \E wf \in BOOLEAN, vb \in ViewBoxes, w \in Lengths, h \in Lengths :
          svgMarkup = [wellFormed |-> wf, viewBox |-> vb, width |-> w, height |-> h]
    /\ intrinsicOut = NoSizeReturned
    /\ svgText = <<>>
    /\ dataUrl = NotReturned

\* the call getSvgIntrinsicSize(svgMarkup) returns
resolveSize ==
    /\ ~intrinsicOut.returned
    /\ intrinsicOut' = [returned |-> TRUE, value |-> getSvgIntrinsicSize(svgMarkup)]
    /\ UNCHANGED <<cards, exports, svgMarkup, svgText, dataUrl>>

NextSize == resolveSize

SpecSize == InitSize /\ [][NextSize]_vars

----------------------------------------------------------------------------
(* Specification of one svgToDataUrl call.                                  *)

\* the longest markup after its opening, in characters
MaxLen == 3

UrlChars == {"a", " ", "=", ":", "/", "\"", "'", "\n", "%", "2", "0", "#"}

UrlOpenings == {<<>>, SvgTag, <<"<", "s", "v", "g", " ", "x", "m", "l", "n", "s", "=", "\"", "x", "\"">>}

InitUrl ==
    /\ cards = [c \in {} |-> initialCard(c)]
    /\ exports = [e \in {} |-> IdleExport]
    /\ svgMarkup = NoMarkup
    /\ intrinsicOut = NoSizeReturned
    /\ \E o \in UrlOpenings, body \in UNION {[1..n -> UrlChars] : n \in 0..MaxLen} :
          svgText = o \o body
    /\ dataUrl = NotReturned

\* the call svgToDataUrl(svgText) returns
buildDataUrl ==
    /\ ~dataUrl.returned
    /\ dataUrl' = [returned |-> TRUE, value |-> svgToDataUrl(svgText)]
    /\ UNCHANGED <<cards, exports, svgMarkup, intrinsicOut, svgText>>

NextUrl == buildDataUrl

SpecUrl == InitUrl /\ [][NextUrl]_vars

----------------------------------------------------------------------------
(* The properties.                                                          *)

Started(e) == exports[e].phase # "Idle"

Terminal(e) == exports[e].phase \in {"Ready", "Failed"}

Entered(e, phase) == \E i \in 1..Len(exports[e].hist) : exports[e].hist[i] = phase

\* round half away from zero
RoundHalfAway(x) ==
    IF x.n >= 0 THEN Num((2 * x.n + x.d) \div (2 * x.d))
    ELSE Num(0 - ((2 * (0 - x.n) + x.d) \div (2 * x.d)))

\* max(1, x)
AtLeastOne(x) == IF x.n < x.d THEN Num(1) ELSE x

\* C1: every export started while the format is jpeg passes transparent = false
\* to the rasterizer, and in every settled state of a card (no effect pending)
\* format = jpeg implies that the card's transparent flag is false.
C1_JpegIsOpaque ==
    /\ \A e \in DOMAIN exports :
          (Started(e) /\ exports[e].clicked.format = "jpeg")
              => ~exports[e].background.transparent
    /\ \A c \in DOMAIN cards :
          (~cards[c].effectPending /\ cards[c].format = "jpeg") => ~cards[c].transparent

\* an export was started from a settled jpeg card
C1_Witness ==
    \E e \in DOMAIN exports :
        /\ Started(e) /\ exports[e].clicked.format = "jpeg"
        /\ cards[exports[e].card].format = "jpeg"
        /\ ~cards[exports[e].card].effectPending

\* C2: in every reachable state of a card, size.width >= 1 and size.height >= 1,
\* the initial size included, for any intrinsic size the resolver can return.
C2_SizeAtLeastOne ==
    \A c \in DOMAIN cards :
        Ge(cards[c].size.width, Num(1)) /\ Ge(cards[c].size.height, Num(1))

\* C3: an export moves through Loading, Drawing, Encoding in that order, rests
\* only where it awaits the decode or the encode callback, and ends in one
\* terminal outcome: Ready with exactly one download and no error message, or
\* Failed with no download and exactly one error message; the image is loaded
\* once (no retry).
C3_ExportFlow ==
    \A e \in DOMAIN exports :
        LET r == exports[e]
        IN  /\ r.hist \in {<<>>, <<"Loading">>, <<"Loading", "Failed">>,
                           <<"Loading", "Drawing", "Failed">>,
                           <<"Loading", "Drawing", "Encoding">>,
                           <<"Loading", "Drawing", "Encoding", "Failed">>,
                           <<"Loading", "Drawing", "Encoding", "Ready">>}
            /\ r.phase = (IF r.hist = <<>> THEN "Idle" ELSE r.hist[Len(r.hist)])
            /\ r.phase = "Ready" => Len(r.saved) = 1 /\ r.alerts = <<>>
            /\ r.phase = "Failed" => r.saved = <<>> /\ Len(r.alerts) = 1
            /\ r.phase \in {"Idle", "Loading", "Encoding"} => r.saved = <<>> /\ r.alerts = <<>>
            /\ r.loads = (IF r.phase = "Idle" THEN 0 ELSE 1)

\* an export failed after its image was decoded and drawn
C3_Witness ==
    \E e \in DOMAIN exports :
        /\ exports[e].hist = <<"Loading", "Drawing", "Encoding", "Failed">>
        /\ exports[e].alerts = <<ErrEncode>>

\* C4: the object URL downloadBlob creates is revoked before the call ends on
\* every path: no finished export leaves its object URL live.
C4_UrlRevoked ==
    \A e \in DOMAIN exports : Terminal(e) => ~exports[e].urlLive

\* C5 (state part): an export's surface size, fill decision, output type and
\* file name are those of its card's settings at the moment of the click.
C5_ClickSettings ==
    \A e \in DOMAIN exports :
        LET r == exports[e]
            k == r.clicked
        IN  /\ Entered(e, "Drawing") =>
                  r.canvas.width = k.size.width /\ r.canvas.height = k.size.height
            /\ Entered(e, "Encoding") =>
                  r.canvas.layers =
                      (IF k.format = "jpeg" \/ ~k.transparent
                       THEN <<k.bgColor, "img">> ELSE <<"img">>)
            /\ r.phase = "Ready" =>
                  /\ r.blob.type = (IF k.format = "jpeg" THEN "image/jpeg" ELSE "image/png")
                  /\ r.saved = <<[slug |-> IF r.card = "masjid" THEN <<"m", "a", "s", "j", "i", "d", "-", "s", "i", "l", "u", "e", "t">> ELSE <<"o", "r", "n", "a", "m", "e", "n", "-", "g", "e", "o", "m", "e", "t", "r", "i", "k">>,
                                  width |-> k.size.width, height |-> k.size.height,
                                  ext |-> IF k.format = "jpeg" THEN "jpg" ELSE "png"]>>

\* C5 (step part): a step of one started export changes neither a card's
\* settings nor another export, and a settings change or a click changes no
\* export already started.
C5_StepIsolation ==
    \A e \in DOMAIN exports :
        Started(e) =>
            /\ exports'[e] # exports[e] =>
                  /\ cards' = cards
                  /\ \A o \in DOMAIN exports \ {e} : exports'[o] = exports[o]
            /\ cards' # cards => exports'[e] = exports[e]

\* C5: for any interleaving of exports in flight and of settings changes, each
\* export uses the settings of its click and no export disturbs the settings or
\* another export.
C5_Isolation == []C5_ClickSettings /\ [][C5_StepIsolation]_vars

\* an export finished after its card's size and format were changed, while
\* another export was in flight
C5_Witness ==
    \E e \in DOMAIN exports, o \in DOMAIN exports :
        /\ e # o
        /\ exports[e].phase = "Ready"
        /\ cards[exports[e].card].size # exports[e].clicked.size
        /\ cards[exports[e].card].format # exports[e].clicked.format
        /\ exports[o].phase \in {"Loading", "Encoding"}

\* C6: the surface is filled with the background colour (#ffffff when the
\* colour is empty) before the image is drawn iff format is jpeg or
\* transparent is false; otherwise the image is drawn on an untouched surface.
C6_FillRule ==
    \A e \in DOMAIN exports :
        LET r == exports[e]
        IN  Entered(e, "Encoding") =>
                r.canvas.layers =
                    (IF r.format = "jpeg" \/ ~r.background.transparent
                     THEN <<IF r.background.color = "" THEN "#ffffff" ELSE r.background.color,
                            "img">>
                     ELSE <<"img">>)

\* a jpeg drawn with the transparent flag set and no colour: filled white first
C6_Witness ==
    \E e \in DOMAIN exports :
        /\ exports[e].format = "jpeg" /\ exports[e].background.transparent
        /\ exports[e].background.color = ""
        /\ exports[e].canvas.layers = <<"#ffffff", "img">>

\* C7: each dimension of the surface equals round(max(1, requested)) with
\* round-half-away-from-zero rounding, an integer >= 1; a request of
\* 100.4 x 99.6 gives a 100 x 100 surface.
C7_SurfaceSize ==
    \A e \in DOMAIN exports :
        LET r == exports[e]
        IN  Entered(e, "Drawing") =>
                /\ r.canvas.width = RoundHalfAway(AtLeastOne(r.outSize.width))
                /\ r.canvas.height = RoundHalfAway(AtLeastOne(r.outSize.height))
                /\ r.canvas.width.d = 1 /\ r.canvas.width.n >= 1
                /\ r.canvas.height.d = 1 /\ r.canvas.height.n >= 1
                /\ (r.outSize = [width |-> Frac(1004, 10), height |-> Frac(996, 10)]
                       => r.canvas.width = Num(100) /\ r.canvas.height = Num(100))

\* a surface was made for a request of -2.5 x 100.4
C7_Witness ==
    \E e \in DOMAIN exports :
        /\ Entered(e, "Drawing")
        /\ exports[e].outSize = [width |-> Frac(-5, 2), height |-> Frac(1004, 10)]
        /\ exports[e].canvas.width = Num(1) /\ exports[e].canvas.height = Num(100)

\* a token that is a number
IsNumeric(t) == t.suffix = "" /\ ~t.num.nan

\* an attribute value with its unit suffix stripped, as a number
Stripped(a) == IF a.present /\ a.toks # <<>> THEN a.toks[1].num ELSE NaN

\* the bounding box is four numeric tokens, the third and fourth positive
GoodViewBox(m) ==
    /\ m.wellFormed /\ m.viewBox.present /\ Len(m.viewBox.toks) = 4
    /\ \A i \in 1..4 : IsNumeric(m.viewBox.toks[i])
    /\ m.viewBox.toks[3].num.n > 0 /\ m.viewBox.toks[4].num.n > 0

\* C8: resolveIntrinsicSize returns the third and fourth tokens of a good
\* bounding box; otherwise the width and height attributes, unit suffix
\* stripped, when both are positive; otherwise null, also for markup that
\* fails to parse. An invalid bounding box falls through to width / height.
C8_IntrinsicSize ==
    intrinsicOut.returned =>
        LET m == svgMarkup
        IN  intrinsicOut.value =
                (IF GoodViewBox(m)
                 THEN SizeOf(m.viewBox.toks[3].num, m.viewBox.toks[4].num)
                 ELSE IF /\ m.wellFormed
                         /\ Gt(Stripped(m.width), Num(0)) /\ Gt(Stripped(m.height), Num(0))
                      THEN SizeOf(Stripped(m.width), Stripped(m.height))
                      ELSE NullSize)

\* a present but invalid bounding box fell through to width="100px" height="50%"
C8_Witness ==
    /\ intrinsicOut.returned
    /\ svgMarkup.viewBox.present /\ Len(svgMarkup.viewBox.toks) = 4
    /\ svgMarkup.width = Attr(<<Tok(Num(100), "px")>>)
    /\ svgMarkup.height = Attr(<<Tok(Num(50), "%")>>)
    /\ intrinsicOut.value = SizeOf(Num(100), Num(50))

RECURSIVE ExpectedPayload(_)
\* newlines removed; space, '=', ':', '/' and the double quote literal; every
\* other character as encodeURIComponent leaves or escapes it
ExpectedPayload(t) ==
    IF t = <<>> THEN <<>>
    ELSE (IF Head(t) = "\n" THEN <<>>
          ELSE IF Head(t) \in {" ", "=", ":", "/", "\""} \cup Unreserved THEN <<Head(t)>>
          ELSE <<"%">> \o HexOf(Head(t)))
         \o ExpectedPayload(Tail(t))

\* the character that %XY stands for
Unescape(x, y) == CHOOSE ch \in Escaped : HexOf(ch) = <<x, y>>

RECURSIVE PercentDecode(_)
PercentDecode(t) ==
    IF t = <<>> THEN <<>>
    ELSE IF Head(t) = "%" /\ Len(t) >= 3 /\ \E ch \in Escaped : HexOf(ch) = <<t[2], t[3]>>
         THEN <<Unescape(t[2], t[3])>> \o PercentDecode(SubSeq(t, 4, Len(t)))
         ELSE <<Head(t)>> \o PercentDecode(Tail(t))

RECURSIVE WithoutNewlines(_)
WithoutNewlines(t) ==
    IF t = <<>> THEN <<>>
    ELSE (IF Head(t) = "\n" THEN <<>> ELSE <<Head(t)>>) \o WithoutNewlines(Tail(t))

\* C9: the data URL is the fixed prefix followed by the percent-encoding of the
\* namespace-completed markup with newlines removed and space, '=', ':', '/'
\* and the quote character restored to themselves, so that percent-decoding
\* the payload gives back the markup without its newlines.
C9_PayloadRoundTrip ==
    dataUrl.returned =>
        LET payload == SubSeq(dataUrl.value, Len(DataUrlPrefix) + 1, Len(dataUrl.value))
        IN  /\ SubSeq(dataUrl.value, 1, Len(DataUrlPrefix)) = DataUrlPrefix
            /\ payload = ExpectedPayload(withXmlns(svgText))
            /\ PercentDecode(payload) = WithoutNewlines(withXmlns(svgText))

\* C10: a width (height) edit sets the other dimension to max(1, round(width /
\* aspect)) (max(1, round(height * aspect))) when the ratio lock is on and
\* leaves it unchanged when it is off, aspect being the intrinsic width / height
\* or 1 when there is none; no other step changes a card's size.
C10_SizeSteps ==
    \A c \in DOMAIN cards :
        LET old == cards[c].size
            new == cards'[c].size
            i   == getSvgIntrinsicSize(ItemOf(c).svg)
            a   == IF i.null THEN Num(1) ELSE Frac(i.width.n * i.height.d, i.width.d * i.height.n)
        IN  /\ (\E v \in Inputs : onWidthChange(c, v)) =>
                   new.height = (IF cards[c].lockRatio
                                 THEN AtLeastOne(RoundHalfAway(
                                          Frac(new.width.n * a.d, new.width.d * a.n)))
                                 ELSE old.height)
            /\ (\E v \in Inputs : onHeightChange(c, v)) =>
                   new.width = (IF cards[c].lockRatio
                                THEN AtLeastOne(RoundHalfAway(
                                         Frac(new.height.n * a.n, new.height.d * a.d)))
                                ELSE old.width)
            /\ ~(\E v \in Inputs : onWidthChange(c, v) \/ onHeightChange(c, v)) => new = old

\* C10, with its example: the 160x160 item starts at 1024 x 1024.
C10_RatioCoupling ==
    /\ ("islamic-ornament" \in DOMAIN cards =>
           cards["islamic-ornament"].size = [width |-> Num(1024), height |-> Num(1024)])
    /\ [][C10_SizeSteps]_vars

\* with the ratio lock off the width of the 240x160 item was set to 3 (from 2.5)
\* and the height stayed at its initial 683
C10_Witness ==
    \E c \in DOMAIN cards :
        /\ c = "masjid" /\ ~cards[c].lockRatio
        /\ cards[c].size = [width |-> Num(3), height |-> Num(683)]

====
